---- MODULE Spec2Model ----
(***************************************************************************)
(* Model of app/api/tasks/route.ts (POST, GET, DELETE handlers) over the   *)
(* three tables of prisma/schema.prisma (Task, Label, TaskLabel).          *)
(*                                                                         *)
(* The datasource is SQLite: a statement outside $transaction commits by   *)
(* itself, the statements of a $transaction callback work on a private     *)
(* copy that is installed on COMMIT or dropped on ROLLBACK, and only one   *)
(* connection at a time holds the write lock.                              *)
(***************************************************************************)
EXTENDS Integers, Sequences, FiniteSets, Bags, TLC

VARIABLES
  tasks,        \* committed rows of table Task
  labels,       \* committed rows of table Label
  taskLabels,   \* committed rows of table TaskLabel (a bag of rows)
  txOwner,      \* the handler whose $transaction holds the write lock
  txTasks,      \* the open transaction's view of Task
  txLabels,     \* the open transaction's view of Label
  txTaskLabels, \* the open transaction's view of TaskLabel
  nextTaskId,   \* ids handed out by @default(cuid()) for Task
  nextLabelId,  \* ids handed out by @default(cuid()) for Label
  pc,           \* per handler: the await it is about to run
  req,          \* per handler: the request it serves
  resp,         \* per handler: the response of its last request
  createdTask,  \* per handler: POST's createdTask.id
  labelIndex,   \* per handler: POST's labelIndex
  labelId,      \* per handler: POST's labelId
  served,       \* requests received so far
  lastHandler   \* the handler that took the last step

vars == <<tasks, labels, taskLabels, txOwner, txTasks, txLabels, txTaskLabels,
          nextTaskId, nextLabelId, pc, req, resp, createdTask, labelIndex,
          labelId, served, lastHandler>>

db == <<tasks, labels, taskLabels>>
tx == <<txOwner, txTasks, txLabels, txTaskLabels>>
locals == <<createdTask, labelIndex, labelId>>

\* ------------------------------------------------------------- bounds
MaxRequests == 3     \* requests received in a run of two handlers
MaxSeqRequests == 2  \* requests received in a run of one handler
MaxLabels == 2       \* longest labels array of a request

\* ------------------------------------------------------------- values
Handlers == {"h1", "h2"}
None == "none"
Undefined == "undefined"      \* a field missing from the JSON body or URL
Null == "null"
NaN == "NaN"

Priorities == {"LOW", "MEDIUM", "HIGH"}
Statuses == {"TODO", "IN_PROGRESS", "DONE"}
DefaultPriority == "MEDIUM"
DefaultStatus == "TODO"
DefaultColor == "#3b82f6"

\* what requests may carry
TitleInputs == {"t", Undefined}
PriorityInputs == {Undefined, "HIGH", "URGENT"}
StatusInputs == {Undefined, "DONE", "BLOCKED"}
DueDateInputs == {Undefined, "2026-01-01", "not-a-date"}
NameInputs == {"work", "home"}
ColorInputs == {Undefined, "#ff0000"}
LabelInputs == [name : NameInputs, color : ColorInputs]
\* a body without labels is carried as the empty array, which is what
\* data.labels || [] makes of it
LabelsInputs == UNION {[1..n -> LabelInputs] : n \in 0..MaxLabels}
Payloads == [title : TitleInputs, priority : PriorityInputs,
             status : StatusInputs, dueDate : DueDateInputs,
             labels : LabelsInputs]
\* searchParams.get('id'): <<>> when the parameter is missing, else <<id>>;
\* id 0 is an id no Task row ever gets
IdInputs == {<<>>} \cup {<<n>> : n \in 0..MaxRequests}
\* searchParams.getAll(...): the values of a repeated parameter
LabelFilters == SUBSET NameInputs
StatusFilters == SUBSET {"TODO", "DONE"}
PriorityFilters == SUBSET {"MEDIUM", "HIGH"}

\* ------------------------------------------------------------- helpers
\* new Date(s).getTime(): the date (kept as written), or NaN when s does not
\* parse
DateGetTime(s) == IF s = "2026-01-01" THEN s ELSE NaN

\* const dueDate = data.dueDate ? new Date(data.dueDate) : null
DueDateOf(data) ==
  IF data.dueDate # Undefined THEN DateGetTime(data.dueDate) ELSE Null

\* data.dueDate && isNaN(dueDate.getTime())
InvalidDueDate(data) ==
  data.dueDate # Undefined /\ DueDateOf(data) = NaN

\* const labelData = data.labels || []
LabelData(data) == data.labels

\* label.color || '#3b82f6'
ColorOrDefault(label) ==
  IF label.color = Undefined THEN DefaultColor ELSE label.color

\* CreateTaskSchema, as z.object(...).safeParse(data).success would decide;
\* POST never calls it
CreateTaskSchema(data) ==
  /\ data.title # Undefined
  /\ data.priority = Undefined \/ data.priority \in {"LOW", "MEDIUM", "HIGH"}
  /\ data.status = Undefined
       \/ data.status \in {"TODO", "IN_PROGRESS", "DONE"}
  /\ data.dueDate = Undefined \/ DateGetTime(data.dueDate) # NaN

Error(status, message) == [status |-> status, body |-> [error |-> message]]
Ok(body) == [status |-> 200, body |-> body]


\* ------------------------------------------------------------- storage
\* prisma.task.create: title is a required String, priority and status are
\* Strings with @default, dueDate is DateTime?
TaskCreateRejects(data) == data.title = Undefined

TaskRow(id, data) ==
  [id |-> id,
   title |-> data.title,
   priority |-> IF data.priority = Undefined THEN DefaultPriority
                ELSE data.priority,
   status |-> IF data.status = Undefined THEN DefaultStatus ELSE data.status,
   dueDate |-> DueDateOf(data)]

\* a lookup on the whole @@unique pair, name and color
LabelFindFirstByNameAndColor(L, label) ==
  {l \in L : l.name = label.name /\ l.color = label.color}

\* prisma.label.findFirst({ where: { name: label.name } }): the rows it may
\* return
LabelFindFirst(L, label) == {l \in L : l.name = label.name}

\* a row that always takes the schema's default color
LabelRowDefaultColor(id, label) ==
  [id |-> id, name |-> label.name, color |-> DefaultColor]

\* the row prisma.label.create stores
LabelRow(id, label) ==
  [id |-> id, name |-> label.name, color |-> ColorOrDefault(label)]

\* @@unique([name, color]) on Label
LabelUniqueViolated(L, row) ==
  \E l \in L : l.name = row.name /\ l.color = row.color

TaskLabelRow(taskId, lid) == [taskId |-> taskId, labelId |-> lid]

\* a TaskLabel table without @@id
TaskLabelIdNotEnforced(TL, row) == FALSE

\* @@id([taskId, labelId]) on TaskLabel
TaskLabelIdViolated(TL, row) == BagIn(row, TL)

\* the two @relation foreign keys of TaskLabel
TaskLabelFkViolated(T, L, row) ==
  \/ ~ \E t \in T : t.id = row.taskId
  \/ ~ \E l \in L : l.id = row.labelId

\* deleteMany without its where: no row is left
TaskLabelDeleteManyAll(TL, taskId) == EmptyBag

\* deleteMany that deletes nothing
TaskLabelDeleteManyNone(TL, taskId) == TL

\* prisma.taskLabel.deleteMany({ where: { taskId } }): the rows left
TaskLabelDeleteMany(TL, taskId) ==
  [r \in {x \in BagToSet(TL) : x.taskId # taskId} |-> TL[r]]

\* prisma.task.delete({ where: { id } }) throws when no row has the id, and
\* when a TaskLabel row still references it (no onDelete: Cascade)
TaskDeleteRejects(T, TL, taskId) ==
  \/ ~ \E t \in T : t.id = taskId
  \/ \E r \in BagToSet(TL) : r.taskId = taskId

\* a failure that keeps the rows written so far (no $transaction around them)
RolledBackKeepsRows(committed, working) == working

\* what a failed $transaction leaves of a table: ROLLBACK keeps the committed
\* rows and drops the working ones
RolledBack(committed, working) == committed

\* what a returned $transaction callback leaves of a table
Committed(committed, working) == working

\* ------------------------------------------------------------- GET query
\* the whereClause object GET builds: a key is set only for a non-empty
\* parameter list
WhereClause(labelNames, statuses, priorities) ==
  (IF labelNames # {} THEN {<<"labels", labelNames>>} ELSE {})
  \cup (IF statuses # {} THEN {<<"status", statuses>>} ELSE {})
  \cup (IF priorities # {} THEN {<<"priority", priorities>>} ELSE {})

\* labels: { some: { label: { name: { in: names } } } }
LabelsSome(t, L, TL, names) ==
  \E r \in BagToSet(TL) :
    /\ r.taskId = t.id
    /\ \E l \in L : l.id = r.labelId /\ l.name \in names

\* one key of the where object, applied to a Task row
Satisfies(t, L, TL, cond) ==
  CASE cond[1] = "labels" -> LabelsSome(t, L, TL, cond[2])
    [] cond[1] = "status" -> t.status \in cond[2]
    [] cond[1] = "priority" -> t.priority \in cond[2]

\* a where whose keys are combined with OR
FindManyRowsAnyKey(T, L, TL, where) ==
  IF where = {} THEN T
  ELSE {t \in T : \E cond \in where : Satisfies(t, L, TL, cond)}

\* the rows task.findMany({ where }) selects; an object without keys is passed
\* as undefined, which selects every row
FindManyRows(T, L, TL, where) ==
  IF where = {} THEN T
  ELSE {t \in T : \A cond \in where : Satisfies(t, L, TL, cond)}

\* include: { labels: { include: { label: true } } }
Include(t, L, TL) ==
  [task |-> t,
   labels |-> {[name |-> l.name, color |-> l.color] :
                l \in {x \in L : BagIn(TaskLabelRow(t.id, x.id), TL)}}]

\* orderBy: { dueDate: 'asc' }; SQLite puts NULL first
DueDateRank(d) == IF d = Null THEN 0 ELSE 1

\* the arrays findMany may return for the selected rows: every order that
\* ascends by dueDate (rows of equal dueDate come in any order)
FindMany(T, L, TL, where) ==
  LET rows == FindManyRows(T, L, TL, where)
      n == Cardinality(rows)
  IN  {[i \in 1..n |-> Include(s[i], L, TL)] :
        s \in {q \in [1..n -> rows] :
                /\ \A i, j \in 1..n : i # j => q[i] # q[j]
                /\ \A i, j \in 1..n :
                     i < j => DueDateRank(q[i].dueDate) <= DueDateRank(q[j].dueDate)}}

\* ------------------------------------------------------------- state
Init ==
  /\ tasks = {}
  /\ labels = {}
  /\ taskLabels = EmptyBag
  /\ txOwner = None
  /\ txTasks = {}
  /\ txLabels = {}
  /\ txTaskLabels = EmptyBag
  /\ nextTaskId = 1
  /\ nextLabelId = 1
  /\ pc = [h \in Handlers |-> "idle"]
  /\ req = [h \in Handlers |-> [kind |-> None]]
  /\ resp = [h \in Handlers |-> [status |-> 0, body |-> None]]
  /\ createdTask = [h \in Handlers |-> 0]
  /\ labelIndex = [h \in Handlers |-> 0]
  /\ labelId = [h \in Handlers |-> 0]
  /\ served = 0
  /\ lastHandler = None

Free(h) == pc[h] \in {"idle", "done"}

\* a request arrives at a handler that serves none
Receive(h, r) ==
  /\ Free(h)
  /\ served' = served + 1
  /\ req' = [req EXCEPT ![h] = r]

\* the handler returns its response
Respond(h, r) ==
  /\ lastHandler' = h
  /\ pc' = [pc EXCEPT ![h] = "done"]
  /\ resp' = [resp EXCEPT ![h] = r]
  /\ createdTask' = [createdTask EXCEPT ![h] = 0]
  /\ labelIndex' = [labelIndex EXCEPT ![h] = 0]
  /\ labelId' = [labelId EXCEPT ![h] = 0]

\* the handler goes on to its next await
Goto(h, label) ==
  /\ lastHandler' = h
  /\ pc' = [pc EXCEPT ![h] = label]

\* the transaction of h ends: its tables are installed or dropped
EndTx(T, L, TL) ==
  /\ tasks' = T
  /\ labels' = L
  /\ taskLabels' = TL
  /\ txOwner' = None
  /\ txTasks' = {}
  /\ txLabels' = {}
  /\ txTaskLabels' = EmptyBag

\* the catch block of POST: the transaction, if open, is rolled back
PostCatch(h) ==
  /\ IF txOwner = h
     THEN EndTx(RolledBack(tasks, txTasks), RolledBack(labels, txLabels),
                RolledBack(taskLabels, txTaskLabels))
     ELSE UNCHANGED <<db, tx>>
  /\ Respond(h, Error(500, "Failed to create task"))

\* while (labelIndex < labelData.length)
LoopOrReturn(h, index) ==
  IF index < Len(LabelData(req[h].data)) THEN "label.findFirst" ELSE "commit"

\* ------------------------------------------------------------- POST
\* request.json(), the dueDate check, and the call of $transaction
POST_Begin(h, data) ==
  /\ Receive(h, [kind |-> "POST", data |-> data])
  /\ IF InvalidDueDate(data)
     THEN Respond(h, Error(400, "Invalid due date format"))
     ELSE /\ Goto(h, "task.create")
          /\ UNCHANGED <<resp, locals>>
  /\ UNCHANGED <<db, tx, nextTaskId, nextLabelId>>

\* BEGIN and prisma.task.create: the INSERT takes the write lock
POST_TaskCreate(h) ==
  /\ pc[h] = "task.create"
  /\ txOwner = None
  /\ IF TaskCreateRejects(req[h].data)
     THEN /\ PostCatch(h)
          /\ UNCHANGED <<nextTaskId>>
     ELSE /\ txOwner' = h
          /\ txTasks' = tasks \cup {TaskRow(nextTaskId, req[h].data)}
          /\ txLabels' = labels
          /\ txTaskLabels' = taskLabels
          /\ createdTask' = [createdTask EXCEPT ![h] = nextTaskId]
          /\ nextTaskId' = nextTaskId + 1
          /\ labelIndex' = [labelIndex EXCEPT ![h] = 0]
          /\ Goto(h, LoopOrReturn(h, 0))
          /\ UNCHANGED <<db, resp, labelId>>
  /\ UNCHANGED <<req, nextLabelId, served>>

\* prisma.label.findFirst and the if (existingLabel) that follows it
POST_LabelFindFirst(h) ==
  /\ pc[h] = "label.findFirst"
  /\ txOwner = h
  /\ LET label == LabelData(req[h].data)[labelIndex[h] + 1]
         found == LabelFindFirst(txLabels, label)
     IN  IF found # {}
         THEN \E existingLabel \in found :
                /\ labelId' = [labelId EXCEPT ![h] = existingLabel.id]
                /\ Goto(h, "taskLabel.create")
         ELSE /\ Goto(h, "label.create")
              /\ UNCHANGED labelId
  /\ UNCHANGED <<db, tx, nextTaskId, nextLabelId, req, resp, createdTask,
                 labelIndex, served>>

\* prisma.label.create
POST_LabelCreate(h) ==
  /\ pc[h] = "label.create"
  /\ txOwner = h
  /\ LET label == LabelData(req[h].data)[labelIndex[h] + 1]
         newLabel == LabelRow(nextLabelId, label)
     IN  IF LabelUniqueViolated(txLabels, newLabel)
         THEN /\ PostCatch(h)
              /\ UNCHANGED nextLabelId
         ELSE /\ txLabels' = txLabels \cup {newLabel}
              /\ labelId' = [labelId EXCEPT ![h] = newLabel.id]
              /\ nextLabelId' = nextLabelId + 1
              /\ Goto(h, "taskLabel.create")
              /\ UNCHANGED <<db, txOwner, txTasks, txTaskLabels, resp,
                             createdTask, labelIndex>>
  /\ UNCHANGED <<nextTaskId, req, served>>

\* prisma.taskLabel.create and labelIndex++
POST_TaskLabelCreate(h) ==
  /\ pc[h] = "taskLabel.create"
  /\ txOwner = h
  /\ LET row == TaskLabelRow(createdTask[h], labelId[h])
     IN  IF \/ TaskLabelIdViolated(txTaskLabels, row)
            \/ TaskLabelFkViolated(txTasks, txLabels, row)
         THEN PostCatch(h)
         ELSE /\ txTaskLabels' = txTaskLabels (+) SetToBag({row})
              /\ labelIndex' = [labelIndex EXCEPT ![h] = labelIndex[h] + 1]
              /\ Goto(h, LoopOrReturn(h, labelIndex[h] + 1))
              /\ UNCHANGED <<db, txOwner, txTasks, txLabels, resp, createdTask,
                             labelId>>
  /\ UNCHANGED <<nextTaskId, nextLabelId, req, served>>

\* return createdTask; COMMIT; NextResponse.json(task)
POST_Commit(h) ==
  /\ pc[h] = "commit"
  /\ txOwner = h
  /\ EndTx(Committed(tasks, txTasks), Committed(labels, txLabels),
           Committed(taskLabels, txTaskLabels))
  /\ Respond(h, Ok(CHOOSE t \in txTasks : t.id = createdTask[h]))
  /\ UNCHANGED <<nextTaskId, nextLabelId, req, served>>

\* any await of POST rejects (the storage fails, or the wait for the write
\* lock times out)
POST_StorageError(h) ==
  /\ pc[h] \in {"task.create", "label.findFirst", "label.create",
                "taskLabel.create", "commit"}
  /\ PostCatch(h)
  /\ UNCHANGED <<nextTaskId, nextLabelId, req, served>>

\* ------------------------------------------------------------- GET
\* the whole handler: one findMany, or its catch block
GET(h, labelNames, statuses, priorities) ==
  /\ Receive(h, [kind |-> "GET", labelNames |-> labelNames,
                 statuses |-> statuses, priorities |-> priorities])
  /\ \/ \E found \in FindMany(tasks, labels, taskLabels,
                              WhereClause(labelNames, statuses, priorities)) :
          Respond(h, Ok(found))
     \/ Respond(h, Error(500, "Failed to fetch tasks"))
  /\ UNCHANGED <<db, tx, nextTaskId, nextLabelId>>

\* ------------------------------------------------------------- DELETE
\* searchParams.get('id') and the if (!taskId); an id is a cuid, so a
\* request can name only one that was handed out, or none
DELETE_Begin(h, id) ==
  /\ id # <<>> => id[1] < nextTaskId
  /\ Receive(h, [kind |-> "DELETE", id |-> id])
  /\ IF id = <<>>
     THEN Respond(h, Error(400, "Task ID is required"))
     ELSE /\ Goto(h, "taskLabel.deleteMany")
          /\ UNCHANGED <<resp, locals>>
  /\ UNCHANGED <<db, tx, nextTaskId, nextLabelId>>

\* prisma.taskLabel.deleteMany, committed by itself
DELETE_DeleteMany(h) ==
  /\ pc[h] = "taskLabel.deleteMany"
  /\ txOwner = None
  /\ taskLabels' = TaskLabelDeleteMany(taskLabels, req[h].id[1])
  /\ Goto(h, "task.delete")
  /\ UNCHANGED <<tasks, labels, tx, nextTaskId, nextLabelId, req, resp,
                 locals, served>>

\* the catch block of DELETE
DeleteCatch(h) ==
  /\ Respond(h, [status |-> 500,
                 body |-> [error |-> "Failed to delete task"]])
  /\ UNCHANGED <<db, tx>>

\* prisma.task.delete, committed by itself
DELETE_TaskDelete(h) ==
  /\ pc[h] = "task.delete"
  /\ txOwner = None
  /\ LET taskId == req[h].id[1]
     IN  IF TaskDeleteRejects(tasks, taskLabels, taskId)
         THEN DeleteCatch(h)
         ELSE LET deletedTask == CHOOSE t \in tasks : t.id = taskId
              IN  /\ tasks' = tasks \ {deletedTask}
                  /\ Respond(h, Ok(deletedTask))
                  /\ UNCHANGED <<labels, taskLabels, tx>>
  /\ UNCHANGED <<nextTaskId, nextLabelId, req, served>>

\* an await of DELETE rejects
DELETE_StorageError(h) ==
  /\ pc[h] \in {"taskLabel.deleteMany", "task.delete"}
  /\ DeleteCatch(h)
  /\ UNCHANGED <<nextTaskId, nextLabelId, req, served>>

\* ------------------------------------------------------------- system
NoColors(d) == \A i \in DOMAIN d.labels : d.labels[i].color = Undefined

\* the bodies of the concurrent runs: a title and no label, one label, two
\* labels, or the same label twice
ConcurrentPayloads ==
  {d \in Payloads :
     /\ d.title # Undefined
     /\ d.priority = Undefined
     /\ d.status = Undefined
     /\ d.dueDate = Undefined
     /\ NoColors(d)
     /\ d.labels \in {<<>>, <<[name |-> "work", color |-> Undefined]>>,
                      <<[name |-> "work", color |-> Undefined],
                        [name |-> "home", color |-> Undefined]>>,
                      <<[name |-> "work", color |-> Undefined],
                        [name |-> "work", color |-> Undefined]>>}}

\* the bodies of the runs about labels: a title and every labels array
LabelPayloads ==
  {d \in Payloads :
     /\ d.title # Undefined
     /\ d.priority = Undefined
     /\ d.status = Undefined
     /\ d.dueDate = Undefined}

\* the bodies of the runs about the fields of a task: every title, priority,
\* status and dueDate, without label or with the label "work"
FieldPayloads ==
  {d \in Payloads :
     /\ NoColors(d)
     /\ Len(d.labels) <= 1
     /\ \A i \in DOMAIN d.labels : d.labels[i].name = "work"}

\* one step of one of the handlers H, which receive at most N requests, drawn
\* from P (bodies), LF, SF, PF (the repeated URL parameters) and I (ids)
Step(H, N, P, LF, SF, PF, I) ==
  \/ /\ served < N
     /\ \E h \in H, data \in P : POST_Begin(h, data)
  \/ \E h \in H : POST_TaskCreate(h)
  \/ \E h \in H : POST_LabelFindFirst(h)
  \/ \E h \in H : POST_LabelCreate(h)
  \/ \E h \in H : POST_TaskLabelCreate(h)
  \/ \E h \in H : POST_Commit(h)
  \/ \E h \in H : POST_StorageError(h)
  \/ /\ served < N
     /\ \E h \in H, labelNames \in LF, statuses \in SF, priorities \in PF :
          GET(h, labelNames, statuses, priorities)
  \/ /\ served < N
     /\ \E h \in H, id \in I : DELETE_Begin(h, id)
  \/ \E h \in H : DELETE_DeleteMany(h)
  \/ \E h \in H : DELETE_TaskDelete(h)
  \/ \E h \in H : DELETE_StorageError(h)

\* two handlers run concurrently
Next ==
  Step(Handlers, MaxRequests, ConcurrentPayloads, {{}, {"work"}}, {{}}, {{}},
       IdInputs)

Spec == Init /\ [][Next]_vars

\* one handler serves one request after the other; the requests differ in
\* their labels
NextLabels ==
  Step({"h1"}, MaxSeqRequests, LabelPayloads, LabelFilters, {{}}, {{}},
       IdInputs)

SpecLabels == Init /\ [][NextLabels]_vars

\* one handler serves one request after the other; the requests differ in
\* the fields of the task
NextFields ==
  Step({"h1"}, MaxSeqRequests, FieldPayloads, LabelFilters, StatusFilters,
       PriorityFilters, IdInputs)

SpecFields == Init /\ [][NextFields]_vars

\* ------------------------------------------------------------- properties
IsPost(h) == req[h].kind = "POST"
IsGet(h) == req[h].kind = "GET"
IsDelete(h) == req[h].kind = "DELETE"

\* the last step ended the request of h
JustDone(h) == lastHandler = h /\ pc[h] = "done"

\* C2: a create request whose priority is present and not LOW, MEDIUM or
\* HIGH, or whose status is present and not TODO, IN_PROGRESS or DONE, ends
\* with an error response, and no Task row of it is stored.
C2_InvalidEnumRejected ==
  \A h \in Handlers :
    (/\ IsPost(h)
     /\ pc[h] = "done"
     /\ \/ req[h].data.priority \notin Priorities \cup {Undefined}
        \/ req[h].data.status \notin Statuses \cup {Undefined})
    => resp[h].status \in {400, 500}

\* C3: in every reachable state every stored Task has a priority among LOW,
\* MEDIUM, HIGH and a status among TODO, IN_PROGRESS, DONE.
C3_StoredEnumsValid ==
  \A t \in tasks : t.priority \in Priorities /\ t.status \in Statuses


\* ------------------------------------------------------------- C1
InTransaction(h) ==
  pc[h] \in {"label.findFirst", "label.create", "taskLabel.create", "commit"}

\* the rows a create of h with the given Task id and labels array has in the
\* tables T, L, TL: the Task row, and for every entry of the array a Label row
\* of its name linked to the task
CreateVisible(T, L, TL, id, labelData) ==
  /\ \E t \in T : t.id = id
  /\ \A i \in DOMAIN labelData :
       \E l \in L : /\ l.name = labelData[i].name
                    /\ BagIn(TaskLabelRow(id, l.id), TL)

\* no row of the tables T, TL carries the Task id
NothingVisible(T, TL, id) ==
  /\ ~ \E t \in T : t.id = id
  /\ ~ \E r \in BagToSet(TL) : r.taskId = id

\* C1: create is all-or-nothing. While the transaction of a create is open
\* the committed tables, which are what a list or delete of another request
\* reads, hold no row of it and no list returns its task; a step inside the
\* transaction changes no committed row; the step that ends the create either
\* answers 200 and commits the Task row with a Label row and a TaskLabel row
\* for every entry of its labels array together, or answers 500 and leaves
\* the Task, Label and TaskLabel tables exactly as they were.
C1_CreateAtomic ==
  /\ [](\A h \in Handlers :
          InTransaction(h) =>
            /\ NothingVisible(tasks, taskLabels, createdTask[h])
            /\ \A found \in FindMany(tasks, labels, taskLabels, {}) :
                 \A i \in DOMAIN found : found[i].task.id # createdTask[h])
  /\ [][\A h \in Handlers :
          (lastHandler' = h /\ IsPost(h) /\ pc[h] \notin {"idle", "done"}) =>
            IF pc'[h] # "done" THEN db' = db
            ELSE \/ /\ resp'[h].status = 200
                    /\ NothingVisible(tasks, taskLabels, createdTask[h])
                    /\ CreateVisible(tasks', labels', taskLabels',
                                     createdTask[h], req[h].data.labels)
                    /\ resp'[h].body.id = createdTask[h]
                 \/ /\ resp'[h].status = 500
                    /\ db' = db]_vars

\* a create that had written a Task row and a Label row failed, and the tables
\* are as empty as before it
C1_Witness ==
  \E h \in Handlers :
    /\ JustDone(h) /\ IsPost(h)
    /\ resp[h].status = 500
    /\ Len(req[h].data.labels) > 0
    /\ nextTaskId > 1 /\ nextLabelId > 1
    /\ tasks = {} /\ labels = {} /\ taskLabels = EmptyBag


\* ------------------------------------------------------------- C7
TaskExists(T, id) == \E t \in T : t.id = id

\* C7: a delete whose id matches no Task row changes no row at any of its
\* steps and answers 500; a delete without an id answers 400 and changes no
\* row.
C7_DeleteMissing ==
  [][\A h \in Handlers :
       (lastHandler' = h /\ req'[h].kind = "DELETE") =>
         IF req'[h].id = <<>>
         THEN resp'[h].status = 400 /\ db' = db
         ELSE ~ TaskExists(tasks, req'[h].id[1]) =>
                /\ db' = db
                /\ pc'[h] = "done" => resp'[h].status = 500]_vars

\* a delete of an id that no Task has was answered 500 while the tables held
\* rows
C7_Witness ==
  \E h \in Handlers :
    /\ JustDone(h) /\ IsDelete(h)
    /\ req[h].id = <<0>>
    /\ resp[h].status = 500
    /\ tasks # {} /\ labels # {} /\ taskLabels # EmptyBag

\* ------------------------------------------------------------- C8
NoAssociations(TL, id) == ~ \E r \in BagToSet(TL) : r.taskId = id

\* C8: delete is two steps that commit separately. Once deleteMany has run,
\* and until task.delete runs, the committed tables hold no TaskLabel row of
\* the task; deleteMany leaves the Task row in place; and a task.delete that
\* fails answers 500 and changes no row, so the Task row stays without its
\* associations.
C8_DeleteNotAtomic ==
  /\ [](\A h \in Handlers :
          pc[h] = "task.delete" => NoAssociations(taskLabels, req[h].id[1]))
  /\ [][\A h \in Handlers :
          /\ (lastHandler' = h /\ pc[h] = "taskLabel.deleteMany"
                /\ pc'[h] = "task.delete")
             => tasks' = tasks /\ labels' = labels
          /\ (lastHandler' = h /\ pc[h] = "task.delete"
                /\ resp'[h].status = 500)
             => /\ db' = db
                /\ pc'[h] = "done"
                /\ TaskExists(tasks, req[h].id[1])
                     => /\ TaskExists(tasks', req[h].id[1])
                        /\ NoAssociations(taskLabels', req[h].id[1])]_vars

\* a task was created with labels, a delete of it removed its associations
\* and then failed: the Task row is still there, without them
C8_Witness ==
  \E h, g \in Handlers :
    /\ JustDone(h) /\ IsDelete(h)
    /\ resp[h].status = 500
    /\ IsPost(g) /\ pc[g] = "done" /\ resp[g].status = 200
    /\ Len(req[g].data.labels) > 0
    /\ req[h].id = <<resp[g].body.id>>
    /\ TaskExists(tasks, resp[g].body.id)
    /\ NoAssociations(taskLabels, resp[g].body.id)

\* ------------------------------------------------------------- C9
\* every row of TL references a row of T and a row of L, and occurs once
ReferentialIntegrity(T, L, TL) ==
  \A r \in BagToSet(TL) :
    /\ \E t \in T : t.id = r.taskId
    /\ \E l \in L : l.id = r.labelId
    /\ CopiesIn(r, TL) = 1

\* C9: in every reachable state, under every interleaving of the two
\* handlers, every TaskLabel row references an existing Task and an existing
\* Label and no (taskId, labelId) pair occurs twice, in the committed tables
\* and in those of an open transaction; after a delete answered 200 no Task
\* row and no TaskLabel row carries its id; and no step removes or changes a
\* Label row.
C9_ReferentialIntegrity ==
  /\ [](/\ ReferentialIntegrity(tasks, labels, taskLabels)
        /\ ReferentialIntegrity(txTasks, txLabels, txTaskLabels)
        /\ \A h \in Handlers :
             (IsDelete(h) /\ pc[h] = "done" /\ resp[h].status = 200) =>
               /\ ~ TaskExists(tasks, req[h].id[1])
               /\ NoAssociations(taskLabels, req[h].id[1]))
  /\ [][labels \subseteq labels']_vars

\* two deletes of the same task, which had a label, ran interleaved: one was
\* answered 200, the other 500
C9_Witness ==
  \E h, g \in Handlers :
    /\ h # g
    /\ IsDelete(h) /\ IsDelete(g)
    /\ req[h].id = req[g].id
    /\ pc[h] = "done" /\ resp[h].status = 200
    /\ JustDone(g) /\ resp[g].status = 500
    /\ labels # {}
    /\ taskLabels = EmptyBag


\* ------------------------------------------------------------- C4
\* the color a request asks for: the one it carries, or the default
RequestedColor(label) ==
  IF label.color = Undefined THEN "#3b82f6" ELSE label.color

\* C4: at most one Label row exists per name, in the committed table and in
\* that of an open transaction; no step changes or removes a Label row; and
\* a create that commits links its task, for every entry whose name existed
\* before, to the row that existed, whatever color the entry asked for.
C4_OneLabelPerName ==
  /\ [](/\ \A l1, l2 \in labels : l1.name = l2.name => l1 = l2
        /\ \A l1, l2 \in txLabels : l1.name = l2.name => l1 = l2)
  /\ [][/\ labels \subseteq labels'
        /\ \A h \in Handlers :
             (lastHandler' = h /\ pc[h] = "commit" /\ resp'[h].status = 200)
             => \A i \in DOMAIN req[h].data.labels :
                  \A l \in labels :
                    l.name = req[h].data.labels[i].name =>
                      BagIn(TaskLabelRow(createdTask[h], l.id),
                            taskLabels')]_vars

\* a create asked for a label of an existing name with another color: it was
\* linked to the existing row, whose color is still the old one
C4_Witness ==
  \E h \in Handlers :
    /\ JustDone(h) /\ IsPost(h)
    /\ resp[h].status = 200
    /\ \E i \in DOMAIN req[h].data.labels :
         \E l \in labels :
           /\ l.name = req[h].data.labels[i].name
           /\ l.color # RequestedColor(req[h].data.labels[i])
           /\ BagIn(TaskLabelRow(resp[h].body.id, l.id), taskLabels)
    /\ Cardinality(tasks) = 2

\* ------------------------------------------------------------- C5
\* the name/color pairs a request supplies
SuppliedPairs(labelData) ==
  {[name |-> labelData[i].name, color |-> RequestedColor(labelData[i])] :
     i \in DOMAIN labelData}

\* the labels every unfiltered list shows for the task id, over the tables
\* T, L, TL, are exactly pairs
ListShows(T, L, TL, id, pairs) ==
  \A found \in FindMany(T, L, TL, WhereClause({}, {}, {})) :
    /\ \E i \in DOMAIN found : found[i].task.id = id
    /\ \A i \in DOMAIN found :
         found[i].task.id = id => found[i].labels = pairs

\* C5 as claimed: right after a create with labels was answered 200, a list
\* shows its task with exactly the name/color pairs of the request.
C5_RoundTripSupplied ==
  \A h \in Handlers :
    (JustDone(h) /\ IsPost(h) /\ resp[h].status = 200
       /\ Len(req[h].data.labels) > 0)
    => ListShows(tasks, labels, taskLabels, resp[h].body.id,
                 SuppliedPairs(req[h].data.labels))

\* the pairs a create stores for its labels array, given the Label rows L
\* that existed before it: the color stored for a name that existed, the
\* requested color for a new name
StoredPairs(L, labelData) ==
  {[name |-> labelData[i].name,
    color |-> IF \E l \in L : l.name = labelData[i].name
              THEN (CHOOSE l \in L : l.name = labelData[i].name).color
              ELSE RequestedColor(labelData[i])] : i \in DOMAIN labelData}

\* C5 amended: right after a create with labels was answered 200, a list
\* shows its task with exactly the label names of the request, each with the
\* color of the Label row of that name: the color the request supplied (or
\* the default) when the create made the row, the color stored before when
\* the name existed.
C5_RoundTripStored ==
  [][\A h \in Handlers :
       (lastHandler' = h /\ pc[h] = "commit" /\ resp'[h].status = 200
          /\ Len(req[h].data.labels) > 0)
       => ListShows(tasks', labels', taskLabels', createdTask[h],
                    StoredPairs(labels, req[h].data.labels))]_vars

\* a create with two labels, one of an existing name with another color and
\* one new with a color of its own, was answered 200
C5_Witness ==
  \E h \in Handlers :
    /\ JustDone(h) /\ IsPost(h)
    /\ resp[h].status = 200
    /\ Len(req[h].data.labels) = 2
    /\ ~ ListShows(tasks, labels, taskLabels, resp[h].body.id,
                   SuppliedPairs(req[h].data.labels))
    /\ \E l \in labels : l.color # DefaultColor

\* ------------------------------------------------------------- C10
\* the labels array names a label twice
RepeatsName(labelData) ==
  \E i, j \in DOMAIN labelData :
    i < j /\ labelData[i].name = labelData[j].name

\* entry index + 1 of the array has the name of an earlier entry
NameSeenBefore(labelData, index) ==
  \E i \in 1..index : labelData[i].name = labelData[index + 1].name

\* C10: in a create whose labels array repeats a name (and whose dueDate
\* passes the check), the repeated entry resolves to the Label id of the
\* earlier one, so its TaskLabel insert violates (taskId, labelId); the create
\* never reaches its commit, it ends with 500, and the step that ends it
\* leaves the Task, Label and TaskLabel tables as they were.
C10_RepeatedNameFails ==
  /\ [](\A h \in Handlers :
          (IsPost(h) /\ RepeatsName(req[h].data.labels)) =>
            /\ pc[h] # "commit"
            /\ (pc[h] = "done" /\ ~ InvalidDueDate(req[h].data))
                 => resp[h].status = 500
            /\ (pc[h] = "taskLabel.create"
                  /\ NameSeenBefore(req[h].data.labels, labelIndex[h]))
                 => BagIn(TaskLabelRow(createdTask[h], labelId[h]),
                          txTaskLabels))
  /\ [][\A h \in Handlers :
          (lastHandler' = h /\ IsPost(h) /\ pc[h] # "done" /\ pc'[h] = "done"
             /\ req'[h] = req[h] /\ RepeatsName(req[h].data.labels))
          => db' = db]_vars

\* the second entry of a create repeats the name of the first, for which the
\* create made a Label row: the TaskLabel insert is about to fail
C10_Witness ==
  \E h \in Handlers :
    /\ pc[h] = "taskLabel.create"
    /\ labelIndex[h] = 1
    /\ req[h].data.labels[1].name = req[h].data.labels[2].name
    /\ req[h].data.labels[1].color # req[h].data.labels[2].color
    /\ labels = {} /\ txLabels # {}
    /\ BagIn(TaskLabelRow(createdTask[h], labelId[h]), txTaskLabels)


\* ------------------------------------------------------------- C6
\* the tasks of T that satisfy every supplied filter category
Matching(T, L, TL, labelNames, statuses, priorities) ==
  {t \in T :
     /\ statuses = {} \/ t.status \in statuses
     /\ priorities = {} \/ t.priority \in priorities
     /\ labelNames = {}
          \/ \E l \in L : /\ l.name \in labelNames
                          /\ BagIn(TaskLabelRow(t.id, l.id), TL)}

\* C6: a list answered 200 returns, each once, exactly the tasks that satisfy
\* every supplied filter category (status in the set, priority in the set, at
\* least one attached label whose name is in the set; an empty category
\* constrains nothing), and the list changes no row.
C6_ListFilters ==
  /\ [](\A h \in Handlers :
          (JustDone(h) /\ IsGet(h) /\ resp[h].status = 200) =>
            LET body == resp[h].body
                want == Matching(tasks, labels, taskLabels, req[h].labelNames,
                                 req[h].statuses, req[h].priorities)
            IN  /\ {body[i].task : i \in DOMAIN body} = want
                /\ Len(body) = Cardinality(want))
  /\ [][\A h \in Handlers :
          (lastHandler' = h /\ req'[h].kind = "GET" /\ served' # served)
          => db' = db]_vars

\* a list with all three filters, two statuses among them, returned the
\* stored task, which has a label, a status and a priority of the request
C6_Witness ==
  \E h \in Handlers :
    /\ JustDone(h) /\ IsGet(h)
    /\ resp[h].status = 200
    /\ req[h].labelNames # {}
    /\ Cardinality(req[h].statuses) = 2
    /\ req[h].priorities # {}
    /\ Len(resp[h].body) = 1
    /\ resp[h].body[1].task.status = "DONE"
    /\ resp[h].body[1].task.priority = "HIGH"
    /\ resp[h].body[1].labels # {}

====
